---- MODULE Spec2Model ----
(***************************************************************************)
(* Wordle as an adversarial game (minimax_games.games.wordle): the         *)
(* feedback evaluator, the vocabulary pruner, the WordleNode tree, the     *)
(* AlphaBetaGuesser and the game loop, with the alpha-beta engine they     *)
(* call.  Words and feedback patterns are sequences of one-character       *)
(* strings; a Python list is a sequence.                                   *)
(***************************************************************************)
EXTENDS Integers, Sequences, FiniteSets, TLC

VARIABLES
    aim, guess, status,                       \* evaluate(aim, guess) and its result
    words, guesses, scores, final_only, result,   \* one call of prune and its result
    nodes, heap,                              \* the WordleNodes of a search and the lists they refer to
    truth, vocabulary, history, guess_next,  \* a Wordle game played by AlphaBetaGuesser and AutoScorer
    tree, variation,                          \* a synthetic game tree and the node alphabeta returns
    pc                                        \* "call" before the function under study has run, "done" after

evalVars == <<aim, guess, status>>
pruneVars == <<words, guesses, scores, final_only, result>>
treeVars == <<nodes, heap>>
gameVars == <<truth, vocabulary, history, guess_next>>
searchVars == <<tree, variation>>
vars == <<aim, guess, status, words, guesses, scores, final_only, result,
          nodes, heap, truth, vocabulary, history, guess_next, tree, variation, pc>>

(***************************************************************************)
(* Bounds of the model.                                                    *)
(***************************************************************************)
NumLetters == 3
PruneLetters == 2
MaxGuesses == 2
MaxExpand == 5
MaxLeaf == 2

(***************************************************************************)
(* Constants of the program.                                               *)
(***************************************************************************)
WordLen == 5

CORRECT_GUESS == <<"=", "=", "=", "=", "=">>
COMPLETELY_WRONG == <<".", ".", ".", ".", ".">>
MINIMUM_NODE == <<"_", "_", "_", "_", "_">>
MAXIMUM_NODE == <<"^", "^", "^", "^", "^">>

Alphabet == <<"a", "b", "c", "d", "e", "f">>
Letters == {Alphabet[i] : i \in 1..NumLetters}
AllWords == [1..WordLen -> Letters]

(***************************************************************************)
(* node.py: the feedback evaluator.                                        *)
(***************************************************************************)
\* len([c for c in s if c == ch])
Count(s, ch) == Cardinality({j \in 1..Len(s) : s[j] = ch})

\* ch in s
In(ch, s) == \E j \in 1..Len(s) : s[j] = ch

Min(x, y) == IF x <= y THEN x ELSE y

\* guess[:i]
Prefix(s, i) == SubSeq(s, 1, Min(i, Len(s)))

\* present with the comparison off by one: < for <=.
present_strict(aim_, guess_, guessc, i) ==
    IF i > 0 /\ Count(aim_, guessc) < Count(Prefix(guess_, i), guessc)
    THEN "." ELSE "-"

\* i is the 0-based position of guessc in guess, as enumerate() gives it.
present(aim_, guess_, guessc, i) ==
    IF i > 0 /\ Count(aim_, guessc) <= Count(Prefix(guess_, i), guessc)
    THEN "." ELSE "-"

evaluate(aim_, guess_) ==
    [p \in 1..Min(Len(aim_), Len(guess_)) |->
        IF aim_[p] = guess_[p] THEN "="
        ELSE IF In(guess_[p], aim_) THEN present(aim_, guess_, guess_[p], p - 1)
        ELSE "."]

(***************************************************************************)
(* node.py: the vocabulary pruner.  A call either returns a list or raises *)
(* ValueError.                                                             *)
(***************************************************************************)
Return(v) == [raised |-> FALSE, value |-> v]
Raise == [raised |-> TRUE, value |-> <<>>]

Range(s) == {s[j] : j \in 1..Len(s)}

\* i is the 0-based position, as enumerate() gives it.
prune_correct(ws, i, c) == SelectSeq(ws, LAMBDA w : w[i + 1] = c)

prune_present(ws, i, c) == SelectSeq(ws, LAMBDA w : In(c, w) /\ w[i + 1] # c)

\* prune_missing without the duplicate-letter branch: an absent letter is
\* excluded from every word, whether or not another occurrence of it in the
\* guess was marked.
prune_missing_global(ws, i, c, status_, guess_) ==
    SelectSeq(ws, LAMBDA w : ~In(c, w))

prune_missing(ws, i, c, status_, guess_) ==
    IF \E p \in 1..Min(Len(status_), Len(guess_)) :
           guess_[p] = c /\ status_[p] # "."
    THEN SelectSeq(ws, LAMBDA w : In(c, w) /\ w[i + 1] # c)
    ELSE SelectSeq(ws, LAMBDA w : ~In(c, w))

\* prune_symbols without the case _ branch: a symbol that is none of '=',
\* '-', '.' is skipped.
RECURSIVE prune_symbols_lenient(_, _, _, _)
prune_symbols_lenient(ws, guess_, score, i) ==
    IF i >= Min(Len(guess_), Len(score)) THEN Return(ws)
    ELSE LET c == guess_[i + 1]
             s == score[i + 1]
         IN  CASE s = "=" -> prune_symbols_lenient(prune_correct(ws, i, c), guess_, score, i + 1)
               [] s = "-" -> prune_symbols_lenient(prune_present(ws, i, c), guess_, score, i + 1)
               [] s = "." -> prune_symbols_lenient(prune_missing(ws, i, c, score, guess_), guess_, score, i + 1)
               [] OTHER -> prune_symbols_lenient(ws, guess_, score, i + 1)

\* for i, (c, s) in enumerate(zip(guess, score)): match s, from position i on.
RECURSIVE prune_symbols(_, _, _, _)
prune_symbols(ws, guess_, score, i) ==
    IF i >= Min(Len(guess_), Len(score)) THEN Return(ws)
    ELSE LET c == guess_[i + 1]
             s == score[i + 1]
         IN  CASE s = "=" -> prune_symbols(prune_correct(ws, i, c), guess_, score, i + 1)
               [] s = "-" -> prune_symbols(prune_present(ws, i, c), guess_, score, i + 1)
               [] s = "." -> prune_symbols(prune_missing(ws, i, c, score, guess_), guess_, score, i + 1)
               [] OTHER -> Raise

\* for guess, score in zip(reversed(guesses), reversed(scores)), from the
\* k-th pair down to the first.
RECURSIVE prune_pairs(_, _, _, _, _)
prune_pairs(ws, gs, ss, k, fo) ==
    IF k = 0 THEN Return(ws)
    ELSE IF ss[k] = CORRECT_GUESS THEN Return(<<gs[k]>>)
    ELSE LET r == prune_symbols(SelectSeq(ws, LAMBDA w : w # gs[k]), gs[k], ss[k], 0)
         IN  IF r.raised THEN Raise
             ELSE IF fo THEN r
             ELSE prune_pairs(r.value, gs, ss, k - 1, fo)

prune(ws, gs, ss, fo) ==
    IF Len(gs) # Len(ss) THEN Raise
    ELSE prune_pairs(ws, gs, ss, Len(gs), fo)

EvalIdle == aim = <<>> /\ guess = <<>> /\ status = <<>>
PruneIdle ==
    /\ words = <<>> /\ guesses = <<>> /\ scores = <<>>
    /\ final_only = TRUE /\ result = Return(<<>>)
TreeIdle == nodes = <<>> /\ heap = <<>>
GameIdle == truth = <<>> /\ vocabulary = <<>> /\ history = <<>> /\ guess_next = TRUE
SearchIdle == tree = <<>> /\ variation = <<>>

(***************************************************************************)
(* SpecEval: evaluate applied to every pair of words over Letters.         *)
(***************************************************************************)
InitEval ==
    /\ aim \in AllWords
    /\ guess \in AllWords
    /\ status = <<>>
    /\ pc = "call"
    /\ PruneIdle /\ TreeIdle /\ GameIdle /\ SearchIdle

Evaluate ==
    /\ pc = "call"
    /\ status' = evaluate(aim, guess)
    /\ pc' = "done"
    /\ UNCHANGED <<aim, guess, pruneVars, treeVars, gameVars, searchVars>>

NextEval == Evaluate

SpecEval == InitEval /\ [][NextEval]_vars

\* The rule of the claim: a letter that is not exact but occurs in truth is
\* '-' exactly when fewer earlier positions holding that letter were marked
\* '=' or '-' than truth holds occurrences of it.  RulePattern(t, g, n) is
\* the pattern of the first n positions.
RECURSIVE RulePattern(_, _, _)
RulePattern(t, g, n) ==
    IF n = 0 THEN <<>>
    ELSE LET prev == RulePattern(t, g, n - 1)
             marked == Cardinality({j \in 1..(n - 1) :
                                      g[j] = g[n] /\ prev[j] \in {"=", "-"}})
         IN  Append(prev,
                 IF g[n] = t[n] THEN "="
                 ELSE IF In(g[n], t)
                      THEN (IF marked < Count(t, g[n]) THEN "-" ELSE ".")
                      ELSE ".")

\* C2: for every pair of equal-length words, evaluate(truth, guess) is the
\* pattern the claim's rule gives: counting every earlier occurrence of the
\* letter in the guess (the code) and counting only the earlier occurrences
\* marked '=' or '-' (the rule) agree.
C2_EvaluateMatchesRule ==
    pc = "done" => status = RulePattern(aim, guess, Len(guess))

\* A guess with a repeated letter of which the later occurrence is absent
\* although the letter occurs in the truth has been evaluated.
C2_Witness ==
    /\ pc = "done"
    /\ \E p \in 2..WordLen :
          /\ status[p] = "."
          /\ In(guess[p], aim)
          /\ \E j \in 1..(p - 1) : guess[j] = guess[p] /\ status[j] = "-"

(***************************************************************************)
(* SpecPrune: one call of prune.  The inputs are either a one-guess        *)
(* history scored by evaluate against a truth, over every pair of words    *)
(* of the first PruneLetters letters, or a history of up to MaxGuesses     *)
(* guesses over a small vocabulary, each scored as some word of the        *)
(* vocabulary would score it or with a pattern holding a foreign symbol.   *)
(***************************************************************************)
Pool == << <<"a", "b", "c", "d", "e">>,
           <<"a", "b", "c", "d", "f">>,
           <<"a", "b", "c", "d", "g">>,
           <<"a", "a", "f", "g", "h">> >>
PoolSet == Range(Pool)

\* The sub-lists of a list: the words at the positions in S, in order.
RECURSIVE SubList(_, _)
SubList(s, S) ==
    IF s = <<>> THEN <<>>
    ELSE LET rest == SubList(Tail(s), {j - 1 : j \in S \ {1}})
         IN  IF 1 \in S THEN <<Head(s)>> \o rest ELSE rest
WordLists == {SubList(Pool, S) : S \in SUBSET (1..Len(Pool))}

BadPatterns == { <<"x", ".", ".", ".", ".">>, <<"=", "=", "=", "=", "x">> }
ScoresFor(g) == {evaluate(t, g) : t \in PoolSet} \cup BadPatterns
Pairs == UNION {{<<g, s>> : s \in ScoresFor(g)} : g \in PoolSet}

PruneWords == [1..WordLen -> {Alphabet[i] : i \in 1..PruneLetters}]

InitPrune ==
    /\ pc = "call"
    /\ result = Return(<<>>)
    /\ final_only \in BOOLEAN
    /\ \/ \E t \in PruneWords, g \in PruneWords :
             /\ words \in {<<t>>, <<g, t>>}
             /\ guesses = <<g>>
             /\ scores = <<evaluate(t, g)>>
       \/ \E n \in 0..MaxGuesses : \E h \in [1..n -> Pairs] :
             /\ words \in WordLists
             /\ guesses = [k \in 1..n |-> h[k][1]]
             /\ scores = [k \in 1..n |-> h[k][2]]
    /\ EvalIdle /\ TreeIdle /\ GameIdle /\ SearchIdle

Prune ==
    /\ pc = "call"
    /\ result' = prune(words, guesses, scores, final_only)
    /\ pc' = "done"
    /\ UNCHANGED <<words, guesses, scores, final_only, evalVars, treeVars, gameVars, searchVars>>

NextPrune == Prune

SpecPrune == InitPrune /\ [][NextPrune]_vars

\* The history is what the truth t gives: every score is evaluate(t, guess).
ScoredBy(t) == \A k \in 1..Len(guesses) : scores[k] = evaluate(t, guesses[k])

\* C3: pruning never eliminates the true word: for every truth in words
\* and every history whose scores are evaluate(truth, guess), prune returns
\* a list that holds truth, for both values of final_only.
C3_TruthSurvives ==
    pc = "done" =>
        \A t \in Range(words) :
            ScoredBy(t) => ~result.raised /\ t \in Range(result.value)

\* A guess with a repeated letter whose later occurrence is absent in the
\* truth's feedback was pruned against, and the truth is still there.
C3_Witness ==
    /\ pc = "done"
    /\ guesses # <<>>
    /\ \E t \in Range(words) :
          /\ ScoredBy(t)
          /\ t \in Range(result.value)
          /\ LET g == guesses[Len(guesses)]
                 s == scores[Len(scores)]
             IN  \E p \in 2..WordLen :
                    /\ s[p] = "." /\ In(g[p], t)
                    /\ \E j \in 1..(p - 1) : g[j] = g[p] /\ s[j] # "."

\* C7: the vocabulary never grows: every word prune returns is a word of
\* the list it was given.
C7_ResultWithinWords ==
    pc = "done" /\ ~result.raised => Range(result.value) \subseteq Range(words)

HasForeign(s) == \E p \in 1..Len(s) : s[p] \notin {".", "-", "="}

\* C8 as stated: a history holding a pattern with a symbol outside
\* {'.', '-', '='} makes prune raise ValueError, wherever the pattern sits
\* and for both values of final_only.
C8_ForeignAlwaysRaises ==
    pc = "done" /\ (\E k \in 1..Len(scores) : HasForeign(scores[k])) => result.raised

\* The k-th pair is one prune gets to: it is the most recent one, or
\* final_only is off and no more recent pattern is all-exact.
Processed(k) ==
    /\ k = Len(scores) \/ ~final_only
    /\ \A j \in (k + 1)..Len(scores) : scores[j] # CORRECT_GUESS

\* C8, amended: prune raises ValueError exactly when a pattern it gets to
\* holds a symbol outside {'.', '-', '='}: the most recent pattern when
\* final_only is set, and otherwise every pattern that no more recent
\* all-exact pattern hides.
C8_ForeignRaisesWhenProcessed ==
    pc = "done" /\ Len(guesses) = Len(scores) =>
        (result.raised <=> \E k \in 1..Len(scores) : Processed(k) /\ HasForeign(scores[k]))

\* prune raised on a foreign symbol in the older of two patterns.
C8_Witness ==
    /\ pc = "done"
    /\ result.raised
    /\ Len(scores) = 2
    /\ HasForeign(scores[1])
    /\ ~HasForeign(scores[2])

(***************************************************************************)
(* node.py: WordleNode.  A node value is [moves, vocabulary, depth]; in    *)
(* SpecTree the vocabulary field is a reference into heap instead.         *)
(***************************************************************************)
Last(s) == s[Len(s)]

\* sum(scores[s] for s in sc); a symbol that is no key of scores has no value.
SymbolScore(s) == CASE s = "." -> 0 [] s = "-" -> 1 [] s = "=" -> 2

RECURSIVE SumScores(_)
SumScores(sc) == IF sc = <<>> THEN 0 ELSE SymbolScore(Head(sc)) + SumScores(Tail(sc))

score_evaluation(sc) ==
    IF sc = MINIMUM_NODE THEN -100
    ELSE IF sc = MAXIMUM_NODE THEN 100
    ELSE SumScores(sc)

WordleNode(moves_, vocabulary_, depth_) ==
    [moves |-> moves_, vocabulary |-> vocabulary_, depth |-> depth_]

is_maximising(n) == n.depth % 2 = 1

\* is_terminal without the ply budget.
is_terminal_no_budget(n) ==
    n.moves # <<>> /\ Last(n.moves) = CORRECT_GUESS

is_terminal(n) ==
    LET no_more_guesses == n.depth = 13
        correct_guess == n.moves # <<>> /\ Last(n.moves) = CORRECT_GUESS
    IN  no_more_guesses \/ correct_guess

score(n) ==
    LET min_max_node == Last(n.moves) \in {MINIMUM_NODE, MAXIMUM_NODE}
    IN  IF ~is_maximising(n) \/ min_max_node THEN score_evaluation(Last(n.moves))
        ELSE IF n.depth > 4 THEN 0
        ELSE Cardinality(Range(Last(n.moves)))

\* WordleNode.prune: the node with its vocabulary pruned against its last
\* guess and feedback.  (The patterns of a search come from evaluate, so
\* prune does not raise here.)
node_prune(n) ==
    IF Len(n.moves) < 2 THEN n
    ELSE [n EXCEPT !.vocabulary =
             prune(n.vocabulary,
                   <<n.moves[Len(n.moves) - 1]>>,
                   <<n.moves[Len(n.moves)]>>,
                   TRUE).value]

\* child_depth without the increment: the child is given its parent's depth.
child_depth_same(n) == n.depth

child_depth(n) == n.depth + 1

\* The children a node yields, in order.
children(n) ==
    IF is_maximising(n)
    THEN LET self == node_prune(n)
         IN  [k \in 1..Len(self.vocabulary) |->
                 WordleNode(Append(self.moves, self.vocabulary[k]),
                            self.vocabulary,
                            child_depth(self))]
    ELSE [k \in 1..Len(n.vocabulary) |->
             WordleNode(Append(n.moves, evaluate(n.vocabulary[k], Last(n.moves))),
                        n.vocabulary,
                        child_depth(n))]

minimum == WordleNode(<<MINIMUM_NODE>>, <<>>, 1)
maximum == WordleNode(<<MAXIMUM_NODE>>, <<>>, 1)

(***************************************************************************)
(* SpecTree: the nodes a search creates.  nodes[1] is the root; every      *)
(* node holds a reference to a list in heap, so that two nodes sharing a   *)
(* list, or a list changed in place, would show.  Expand(n) is one whole   *)
(* run of nodes[n].children().                                             *)
(***************************************************************************)
Deref(h, nd) == WordleNode(nd.moves, h[nd.vocabulary], nd.depth)

\* Where WordleNode.prune leaves the pruned list: prune() builds a new list
\* and self.vocabulary is bound to it (PrunedRef).  PrunedRef_in_place is
\* the alternative in which the pruned words are written into the list the
\* node already holds.
PrunedRef_in_place(old, fresh) == old

PrunedRef(old, fresh) == fresh

Store(h, ref, list) ==
    IF ref = Len(h) + 1 THEN Append(h, list) ELSE [h EXCEPT ![ref] = list]

\* Rounds already played when AlphaBetaGuesser builds a root: the game ends
\* with the sixth score.
RootRounds == 1..(6 - 1)

InitTree ==
    /\ pc = "search"
    /\ \E v \in WordLists \ {<<>>} :
          /\ heap = <<v>>
          /\ \/ nodes = << [moves |-> <<>>, vocabulary |-> 1, depth |-> 1,
                            parent |-> 0, expanded |-> FALSE] >>
             \/ \E g \in PoolSet, t \in Range(v), n \in RootRounds :
                   /\ evaluate(t, g) # CORRECT_GUESS
                   /\ nodes = << [moves |-> <<g, evaluate(t, g)>>, vocabulary |-> 1,
                                  depth |-> 1 + n * 2,
                                  parent |-> 0, expanded |-> FALSE] >>
    /\ EvalIdle /\ PruneIdle /\ GameIdle /\ SearchIdle

NumExpanded == Cardinality({m \in 1..Len(nodes) : nodes[m].expanded})

Expand(n) ==
    LET nd == nodes[n]
        val == Deref(heap, nd)
        pruning == is_maximising(val) /\ Len(nd.moves) >= 2
        ref1 == IF pruning THEN PrunedRef(nd.vocabulary, Len(heap) + 1) ELSE nd.vocabulary
        heap1 == IF pruning THEN Store(heap, ref1, node_prune(val).vocabulary) ELSE heap
        kids == children(val)
    IN  /\ pc = "search"
        /\ ~nd.expanded
        /\ ~is_terminal(val)
        /\ NumExpanded < MaxExpand
        /\ heap' = heap1 \o [k \in 1..Len(kids) |-> kids[k].vocabulary]
        /\ nodes' = [nodes EXCEPT ![n].vocabulary = ref1, ![n].expanded = TRUE]
                    \o [k \in 1..Len(kids) |->
                           [moves |-> kids[k].moves, vocabulary |-> Len(heap1) + k,
                            depth |-> kids[k].depth,
                            parent |-> n, expanded |-> FALSE]]
        /\ UNCHANGED <<pc, evalVars, pruneVars, gameVars, searchVars>>

NextTree == \E n \in 1..Len(nodes) : Expand(n)

SpecTree == InitTree /\ [][NextTree]_vars

Node(m) == Deref(heap, nodes[m])

RECURSIVE Steps(_)
Steps(m) == IF nodes[m].parent = 0 THEN 0 ELSE 1 + Steps(nodes[m].parent)

\* C4: from a root of odd depth d <= 13 with a non-empty vocabulary that
\* holds a word giving the root's feedback, every chain of children() steps
\* ends at a terminal node after at most 13 - d steps: no node is deeper
\* than 13, and no node that is not terminal yields zero children.
C4_ChainsEnd ==
    pc = "search" =>
        \A m \in 1..Len(nodes) :
            /\ nodes[m].depth <= 13
            /\ Steps(m) <= 13 - nodes[1].depth
            /\ ~is_terminal(Node(m)) => Len(children(Node(m))) > 0

\* A chain of two children() steps from a root at depth 11 has ended at the
\* ply budget, on a feedback that is not all-exact.
C4_Witness ==
    /\ pc = "search"
    /\ \E m \in 1..Len(nodes) :
          /\ Steps(m) = 2
          /\ nodes[m].depth = 13
          /\ is_terminal(Node(m))
          /\ Last(nodes[m].moves) # CORRECT_GUESS

\* C5: the score of a terminal node is score_evaluation of its last
\* feedback pattern.
C5_TerminalScore ==
    pc = "search" =>
        \A m \in 1..Len(nodes) :
            is_terminal(Node(m)) =>
                score(Node(m)) = score_evaluation(Last(nodes[m].moves))

\* C9: a run of children() changes no list, and so neither the list passed
\* to the root nor the vocabulary of any node but the one it runs on.
C9_NoSharedMutation ==
    [][pc = "search" =>
        /\ \A r \in 1..Len(heap) : heap'[r] = heap[r]
        /\ \A m \in 1..Len(nodes) :
              nodes'[m].expanded = nodes[m].expanded => Node(m)' = Node(m)]_vars

\* A node that carries a guess and its feedback has pruned its vocabulary
\* to fewer words, and one of its children has been expanded after it.
C9_Witness ==
    /\ pc = "search"
    /\ \E m \in 1..Len(nodes) :
          /\ nodes[m].expanded
          /\ nodes[m].vocabulary # m
          /\ Len(nodes[m].moves) >= 2
          /\ Len(Node(m).vocabulary) < Len(heap[m])
          /\ \E k \in 1..Len(nodes) : nodes[k].parent = m /\ nodes[k].expanded

IsPattern(s) == \A p \in 1..Len(s) : s[p] \in {".", "-", "="}

\* C10 as stated: the move history of every node is as long as its depth,
\* and the node is the maximizer exactly when its depth is odd.
C10_HistoryLengthIsDepth ==
    pc = "search" =>
        \A m \in 1..Len(nodes) :
            /\ Len(nodes[m].moves) = nodes[m].depth
            /\ is_maximising(Node(m)) <=> nodes[m].depth % 2 = 1

\* C10, amended: every node yielded by children() is one ply deeper than
\* its parent and has one more move, so depth minus history length is the
\* root's throughout a search (1 for the default root, 2n - 1 for the root
\* AlphaBetaGuesser builds after n guesses); and the nodes of odd depth,
\* and only they, move as the maximizer: their children add a guess word,
\* those of the nodes of even depth add a feedback pattern.
C10_DepthParityAndOffset ==
    pc = "search" =>
        /\ nodes[1].depth - Len(nodes[1].moves) \in {1} \cup {2 * n - 1 : n \in RootRounds}
        /\ \A m \in 2..Len(nodes) :
              LET p == nodes[m].parent
              IN  /\ nodes[m].depth = nodes[p].depth + 1
                  /\ Len(nodes[m].moves) = Len(nodes[p].moves) + 1
                  /\ nodes[m].depth - Len(nodes[m].moves)
                         = nodes[1].depth - Len(nodes[1].moves)
                  /\ is_maximising(Node(p)) <=> nodes[p].depth % 2 = 1
                  /\ nodes[p].depth % 2 = 1 <=> Last(nodes[m].moves) \in PoolSet
                  /\ nodes[p].depth % 2 = 0 <=> IsPattern(Last(nodes[m].moves))

\* Both kinds of root have been expanded two plies down: a guess and then
\* a feedback pattern have been added.
C10_Witness ==
    /\ pc = "search"
    /\ \E m \in 2..Len(nodes) :
          /\ nodes[nodes[m].parent].parent = 1
          /\ IsPattern(Last(nodes[m].moves))
          /\ Len(nodes[1].moves) = 2

(***************************************************************************)
(* minimax_games.search.alphabeta: the alpha-beta engine.  A game tree is  *)
(* [terminal, maximising, key, node, kids]: what is_terminal(),            *)
(* is_maximising() and score() answer for the node, the node itself and    *)
(* the trees of the children it yields, in order.  The engine returns      *)
(* [key, node, seen]: a node, its score, and the number of terminal nodes  *)
(* the search has looked at.                                               *)
(***************************************************************************)
Found(key_, node_, seen_) == [key |-> key_, node |-> node_, seen |-> seen_]

RECURSIVE AlphaBeta(_, _, _, _)
RECURSIVE Visit(_, _, _, _, _, _, _)

\* The children from the i-th on, with the best node so far and the window.
Visit(t, i, best, a, b, soft, seen) ==
    IF i > Len(t.kids) THEN Found(best.key, best.node, seen)
    ELSE LET candidate == AlphaBeta(t.kids[i], a, b, soft)
             better == IF t.maximising THEN candidate.key > best.key
                                       ELSE candidate.key < best.key
             best1 == IF better THEN candidate ELSE best
             a1 == IF t.maximising /\ best1.key > a.key THEN best1 ELSE a
             b1 == IF ~t.maximising /\ best1.key < b.key THEN best1 ELSE b
             seen1 == seen + candidate.seen
         IN  IF a1.key >= b1.key
             THEN (IF soft THEN Found(best1.key, best1.node, seen1)
                   ELSE IF t.maximising THEN Found(a1.key, a1.node, seen1)
                   ELSE Found(b1.key, b1.node, seen1))
             ELSE Visit(t, i + 1, best1, a1, b1, soft, seen1)

AlphaBeta(t, a, b, soft) ==
    IF t.terminal THEN Found(t.key, t.node, 1)
    ELSE Visit(t, 1,
               IF t.maximising THEN Found(score(minimum), minimum, 0)
                               ELSE Found(score(maximum), maximum, 0),
               a, b, soft, 0)

\* search with the two bounds passed the wrong way round.
search_swapped(t) ==
    AlphaBeta(t, Found(score(maximum), maximum, 0), Found(score(minimum), minimum, 0), TRUE)

\* game.py: alphabeta(node, a=node.minimum(), b=node.maximum(), soft=True)
search(t) ==
    AlphaBeta(t, Found(score(minimum), minimum, 0), Found(score(maximum), maximum, 0), TRUE)

(***************************************************************************)
(* SpecSearch: the search on every tree of up to three plies below the     *)
(* root, one or two children a node (two at the deepest ply), with leaf    *)
(* scores in 0..MaxLeaf.  A node of such a tree is the path of child       *)
(* indices that leads to it.                                               *)
(***************************************************************************)
LeafScores == 0..MaxLeaf

Shapes0 == {[leaf |-> TRUE, key |-> v, kids |-> <<>>] : v \in LeafScores}
Inner(S) == {[leaf |-> FALSE, key |-> 0, kids |-> ks] : ks \in [{1} -> S] \cup [{1, 2} -> S]}
Shapes1 == Shapes0 \cup {[leaf |-> FALSE, key |-> 0, kids |-> ks] : ks \in [{1, 2} -> Shapes0]}
Shapes2 == Shapes0 \cup Inner(Shapes1)
Shapes3 == Shapes0 \cup Inner(Shapes2)

RECURSIVE Labelled(_, _)
Labelled(shape, path) ==
    [terminal |-> shape.leaf,
     maximising |-> (Len(path) + 1) % 2 = 1,
     key |-> shape.key,
     node |-> WordleNode(path, <<>>, Len(path) + 1),
     kids |-> [k \in 1..Len(shape.kids) |-> Labelled(shape.kids[k], Append(path, k))]]

InitSearch ==
    /\ pc = "call"
    /\ \E shape \in Shapes3 : tree = Labelled(shape, <<>>)
    /\ variation = Found(0, minimum, 0)
    /\ EvalIdle /\ PruneIdle /\ TreeIdle /\ GameIdle

Search ==
    /\ pc = "call"
    /\ variation' = search(tree)
    /\ pc' = "done"
    /\ UNCHANGED <<tree, evalVars, pruneVars, treeVars, gameVars>>

NextSearch == Search

SpecSearch == InitSearch /\ [][NextSearch]_vars

RECURSIVE Fold(_, _, _)
\* The largest (max = TRUE) or smallest element of a non-empty sequence of numbers.
Fold(s, k, max) ==
    IF k = 1 THEN s[1]
    ELSE LET rest == Fold(s, k - 1, max)
         IN  IF max THEN (IF s[k] > rest THEN s[k] ELSE rest)
                    ELSE (IF s[k] < rest THEN s[k] ELSE rest)

RECURSIVE Minimax(_)
Minimax(t) ==
    IF t.terminal THEN t.key
    ELSE Fold([k \in 1..Len(t.kids) |-> Minimax(t.kids[k])], Len(t.kids), t.maximising)

RECURSIVE Leaves(_)
Leaves(t) ==
    IF t.terminal THEN {t}
    ELSE UNION {Leaves(t.kids[k]) : k \in 1..Len(t.kids)}

\* C1: on a finite tree whose leaf scores lie strictly between the scores
\* of the two sentinels, the fail-soft search with the full window returns
\* a leaf of the tree whose score is the minimax value of the root.
C1_SearchReturnsMinimax ==
    pc = "done" =>
        /\ \A l \in Leaves(tree) : score(minimum) < l.key /\ l.key < score(maximum)
        /\ variation.key = Minimax(tree)
        /\ \E l \in Leaves(tree) :
              /\ l.node.depth = variation.node.depth
              /\ l.key = variation.key
              /\ l.node.moves = variation.node.moves

\* A search of a tree three plies deep that cut off: it looked at fewer
\* leaves than the tree has.
C1_Witness ==
    /\ pc = "done"
    /\ variation.seen < Cardinality(Leaves(tree))
    /\ \E l \in Leaves(tree) : l.node.depth = 4

(***************************************************************************)
(* game.py: AlphaBetaGuesser, AutoScorer and the game loop of main().      *)
(***************************************************************************)
crate == <<"c", "r", "a", "t", "e">>
bogus == <<"b", "o", "g", "u", "s">>

\* The game tree below a WordleNode, as the engine walks it: children() is
\* asked of the nodes that are not terminal, score() of those that are.
RECURSIVE WordleTree(_)
WordleTree(n) ==
    IF is_terminal(n)
    THEN [terminal |-> TRUE, maximising |-> is_maximising(n), key |-> score(n),
          node |-> n, kids |-> <<>>]
    ELSE LET ch == children(n)
         IN  [terminal |-> FALSE, maximising |-> is_maximising(n), key |-> 0,
              node |-> n, kids |-> [k \in 1..Len(ch) |-> WordleTree(ch[k])]]

\* AlphaBetaGuesser.__call__ of a guesser with the vocabulary voc.
AlphaBetaGuesser(voc, gs, ss) ==
    IF gs = <<>> THEN crate
    ELSE IF Len(gs) = 1 /\ Last(ss) = COMPLETELY_WRONG THEN bogus
    ELSE LET pruned == prune(voc, gs, ss, FALSE).value
             node == WordleNode(<<Last(gs), Last(ss)>>, pruned, 1 + Len(gs) * 2)
             best_guess == search(WordleTree(node)).node
         IN  best_guess.moves[Len(best_guess.moves) - 1]

\* AutoScorer.__call__
AutoScorer(truth_, guess_) == evaluate(truth_, guess_)

\* Wordle.is_terminal
game_is_terminal(ss) ==
    LET correct_guess == \E k \in 1..Len(ss) : ss[k] = CORRECT_GUESS
        no_more_guesses == Len(ss) = 6
    IN  correct_guess \/ no_more_guesses

(***************************************************************************)
(* SpecGame: main() with an AlphaBetaGuesser and an AutoScorer, for every  *)
(* vocabulary made of words of Pool, with or without the two words the     *)
(* guesser opens with, and every truth in it.                              *)
(***************************************************************************)
GameVocabularies ==
    {v \o o : v \in WordLists, o \in {<<>>, <<crate>>, <<bogus>>, <<crate, bogus>>}}
        \ {<<>>}

InitGame ==
    /\ pc = "play"
    /\ vocabulary \in GameVocabularies
    /\ truth \in Range(vocabulary)
    /\ history = [guesses |-> <<>>, scores |-> <<>>]
    /\ guess_next = TRUE
    /\ EvalIdle /\ PruneIdle /\ TreeIdle /\ SearchIdle

\* Wordle.move when guess_next, and the loop's test after it.
MoveGuess ==
    /\ pc = "play"
    /\ guess_next
    /\ Len(history.guesses) <= Len(history.scores)
    /\ history' = [history EXCEPT !.guesses =
                      Append(@, AlphaBetaGuesser(vocabulary, history.guesses, history.scores))]
    /\ guess_next' = FALSE
    /\ pc' = IF game_is_terminal(history.scores) THEN "over" ELSE "play"
    /\ UNCHANGED <<truth, vocabulary, evalVars, pruneVars, treeVars, searchVars>>

\* Wordle.move when not guess_next, and the loop's test after it.
MoveScore ==
    /\ pc = "play"
    /\ ~guess_next
    /\ Len(history.scores) # Len(history.guesses)
    /\ history' = [history EXCEPT !.scores =
                      Append(@, AutoScorer(truth, Last(history.guesses)))]
    /\ guess_next' = TRUE
    /\ pc' = IF game_is_terminal(history'.scores) THEN "over" ELSE "play"
    /\ UNCHANGED <<truth, vocabulary, evalVars, pruneVars, treeVars, searchVars>>

NextGame == MoveGuess \/ MoveScore

SpecGame == InitGame /\ [][NextGame]_vars

\* The candidate vocabulary before the k-th guess: the guesser's vocabulary
\* pruned against the k - 1 guesses and scores before it.
Candidates(k) ==
    prune(vocabulary, SubSeq(history.guesses, 1, k - 1),
          SubSeq(history.scores, 1, k - 1), FALSE).value

\* C6: every guess AlphaBetaGuesser returns in a game that has not ended,
\* the first guess and the guess after an all-absent first score included,
\* is a word of the candidate vocabulary.
C6_GuessIsCandidate ==
    pc \in {"play", "over"} =>
        \A k \in 1..Len(history.guesses) : history.guesses[k] \in Range(Candidates(k))

====
